---- MODULE Spec2Model ----
(***************************************************************************)
(* A model of gnss_timeseries/network.py: the NetworkTimeSeries station    *)
(* registry, the hypocentral distance map, and the PGD -> Mw estimators.   *)
(*                                                                         *)
(* Numbers are fixed point integers:                                       *)
(*   longitude, latitude   1e-6 degree                                     *)
(*   depth                 1e-6 km                                         *)
(*   distances r           km (floor of the square root)                   *)
(*   times                 ms                                              *)
(*   PGD                   1e-4 m                                          *)
(*   Mw                    1e-3                                            *)
(***************************************************************************)
EXTENDS Integers, Sequences, FiniteSets, TLC

VARIABLES
    n_sta,          \* self.n_sta
    station_ts,     \* self._station_ts : one buffer per registration
    ref_coords,     \* self._ref_coords : <<lon, lat>> per registration
    codes,          \* self._codes
    code2index,     \* self._code2index : dict code -> zero-based index
    names,          \* self._names
    s_rate,         \* self.s_rate (Hz)
    tm,             \* self._tm : centre <<lon, lat>> of the projector
    lat_range,      \* self._lat_range
    lon_range,      \* self._lon_range
    hypocenter,     \* self._hypocenter : <<lon, lat, depth>>
    t_origin,       \* self._t_origin
    distance_dict,  \* self._distance_dict : dict code -> r
    max_distance,   \* self._max_distance
    tmCalls,        \* projector calls (reset and forward) made by the last call
    call,           \* the last method call with its arguments
    result          \* what the last call returned (or the exception it raised)

vars == <<n_sta, station_ts, ref_coords, codes, code2index, names, s_rate, tm,
          lat_range, lon_range, hypocenter, t_origin, distance_dict,
          max_distance, tmCalls, call, result>>

registry == <<n_sta, station_ts, ref_coords, codes, code2index, names,
              lat_range, lon_range>>

geometry == <<hypocenter, distance_dict, max_distance, tm>>

----------------------------------------------------------------------------
(* Values *)

\* float('nan'), kept apart from every number the model computes
NaN == -999999999

\* float('-inf'), the value of log10(0)
NegInf == -888888888

\* Python's None for an optional sequence argument
None == <<>>

\* Python's None for an optional number argument
NoneNum == -1

\* Python's None for the optional list argument sta_list
NoneList == <<"None">>

\* a call that returned None
ReturnNone == [kind |-> "None"]

isnan(x) == x = NaN

\* default_max_distance = 800.
default_max_distance == 800

Abs(x) == IF x < 0 THEN -x ELSE x

Max2(a, b) == IF a < b THEN b ELSE a

Max3(a, b, c) == Max2(a, Max2(b, c))

Range(s) == {s[i] : i \in 1..Len(s)}

EmptyDict == [c \in {} |-> 0]

\* d[k] = v
DictSet(d, k, v) == [c \in DOMAIN d \cup {k} |-> IF c = k THEN v ELSE d[c]]

\* d.pop(k, None)
DictPop(d, k) == [c \in DOMAIN d \ {k} |-> d[c]]

----------------------------------------------------------------------------
(* Bounds and input sets *)

\* the number of registrations a run makes
MaxSta == 2

Codes == {"AAAA", "BBBB"}

Names == {"Alpha"}

\* reference coordinates <<lon, lat>> offered to add_station
RefCoordsArgs == {<<7990000, 0>>, <<8000000, 20000>>, <<8010000, -20000>>}

\* hypocentres <<lon, lat, depth>> offered to set_hypocenter_coords
HypoArgs == {<<0, 0, 0>>, <<5, -5, 999>>, <<10, 0, 0>>, <<0, 0, 1000>>,
             <<7000000, 0, 0>>, <<7000000, 0, 30000000>>}

MaxDistanceArgs == {NoneNum, 100}

----------------------------------------------------------------------------
(* Collaborators *)

\* GnssTimeSeries(length, sampling_rate, window_offset): a buffer without data;
\* its pgd_timeseries() is the pair (pgd, t), (None, None) when it has no data
NewBuffer == [pgd |-> None, t |-> None]

\* TransverseMercator.__call__(lon, lat) -> (x, y) in metres around the centre:
\* a plane chart with 0.1 m per 1e-6 degree (100 km per degree) on both axes
TMForward(centre, lon, lat) ==
    <<(lon - centre[1]) \div 10, (lat - centre[2]) \div 10>>

RECURSIVE IsqrtIter(_, _, _)
IsqrtIter(n, lo, hi) ==
    IF lo >= hi THEN lo
    ELSE LET mid == (lo + hi + 1) \div 2
         IN  IF mid * mid <= n THEN IsqrtIter(n, mid, hi)
             ELSE IsqrtIter(n, lo, mid - 1)

\* math.sqrt, rounded down to a whole number
sqrt(n) == IsqrtIter(n, 0, 40000)

----------------------------------------------------------------------------
(* Station registry *)

\* lines 98-102 / 103-107: the if / elif update of one bounding range
UpdateRange(range, v) ==
    IF v < range[1] THEN <<v, range[2]>>
    ELSE IF v > range[2] THEN <<range[1], v>>
    ELSE range

\* add_station without the early return of lines 83-87: a station without
\* reference coordinates is registered with (nan, nan), as line 93 provides for
add_station_registers_without_coords(code, rc, name) ==
    /\ n_sta < MaxSta
    /\ call' = [op |-> "add_station", code |-> code, ref_coords |-> rc,
                name |-> name]
    /\ result' = ReturnNone
    /\ tmCalls' = 0
    /\ UNCHANGED <<s_rate, t_origin, geometry>>
    /\ code2index' = DictSet(code2index, code, n_sta)
    /\ n_sta' = n_sta + 1
    /\ codes' = Append(codes, code)
    /\ names' = Append(names, name)
    /\ ref_coords' = Append(ref_coords, IF rc = None THEN <<NaN, NaN>> ELSE rc)
    /\ station_ts' = Append(station_ts, NewBuffer)
    /\ lat_range' = IF rc = None THEN lat_range ELSE UpdateRange(lat_range, rc[2])
    /\ lon_range' = IF rc = None THEN lon_range ELSE UpdateRange(lon_range, rc[1])

add_station(code, rc, name) ==
    /\ n_sta < MaxSta
    /\ call' = [op |-> "add_station", code |-> code, ref_coords |-> rc,
                name |-> name]
    /\ result' = ReturnNone
    /\ tmCalls' = 0
    /\ UNCHANGED <<s_rate, t_origin, geometry>>
    /\ IF rc = None
       THEN UNCHANGED registry
       ELSE /\ code2index' = DictSet(code2index, code, n_sta)
            /\ n_sta' = n_sta + 1
            /\ codes' = Append(codes, code)
            /\ names' = Append(names, name)
            /\ ref_coords' = Append(ref_coords, rc)
            /\ station_ts' = Append(station_ts, NewBuffer)
            /\ lat_range' = UpdateRange(lat_range, rc[2])
            /\ lon_range' = UpdateRange(lon_range, rc[1])

lat_range_get == lat_range

lon_range_get == lon_range

station_codes == codes

\* station_code(index), index zero-based
station_code(index) == codes[index + 1]

station_index(code) == code2index[code]

\* ref_coords(code) for a code string
ref_coords_of(code) == ref_coords[code2index[code] + 1]

----------------------------------------------------------------------------
(* Hypocentral distances *)

\* line 281: r = sqrt(depth_2 + (x*x + y*y)*1.e-6), depth in km, x and y in m;
\* the squares are taken of whole kilometres
HypoDistance(centre, depth, rc) ==
    LET xy == TMForward(centre, rc[1], rc[2])
        x == xy[1] \div 1000
        y == xy[2] \div 1000
        d == depth \div 1000000
    IN  sqrt(d * d + (x * x + y * y))

\* r <= max_distance in place of line 282's r < max_distance
WithinMax_inclusive(r, maxd) == r <= maxd

\* line 282: r < max_distance
WithinMax(r, maxd) == r < maxd

\* lines 277-285: the loop over zip(self._codes, self._ref_coords), from entry i
RECURSIVE DistanceLoop(_, _, _, _)
DistanceLoop(d, i, coords, maxd) ==
    IF i > Len(codes) THEN d
    ELSE LET code == codes[i]
             rc == ref_coords[i]
         IN  IF rc = None THEN DistanceLoop(d, i + 1, coords, maxd)
             ELSE LET r == HypoDistance(<<coords[1], coords[2]>>, coords[3], rc)
                  IN  IF WithinMax(r, maxd)
                      THEN DistanceLoop(DictSet(d, code, r), i + 1, coords, maxd)
                      ELSE DistanceLoop(DictPop(d, code), i + 1, coords, maxd)

HypocenterIsSet == ~(\E k \in 1..3 : isnan(hypocenter[k]))

\* the tolerance test without the 0.01 factor on the depth difference
WithinTolerance_unscaled_depth(coords) ==
    Max3(Abs(coords[1] - hypocenter[1]),
         Abs(coords[2] - hypocenter[2]),
         Abs(coords[3] - hypocenter[3])) < 10

\* lines 266-269: max(|dlon|, |dlat|, 0.01*|ddepth|) < 1.e-5, in 1e-8 units
WithinTolerance(coords) ==
    Max3(100 * Abs(coords[1] - hypocenter[1]),
         100 * Abs(coords[2] - hypocenter[2]),
         Abs(coords[3] - hypocenter[3])) < 1000

\* lines 266-270: the early return
HypocenterNoOp(coords) ==
    coords = None \/ (HypocenterIsSet /\ WithinTolerance(coords))

set_hypocenter_coords(coords, maxd) ==
    /\ call' = [op |-> "set_hypocenter_coords", coords |-> coords,
                max_distance |-> maxd]
    /\ result' = ReturnNone
    /\ UNCHANGED <<registry, s_rate, t_origin>>
    /\ IF HypocenterNoOp(coords)
       THEN /\ UNCHANGED geometry
            /\ tmCalls' = 0
       ELSE LET m == IF maxd = NoneNum THEN default_max_distance ELSE maxd
            IN  /\ max_distance' = m
                /\ hypocenter' = coords
                /\ tm' = <<coords[1], coords[2]>>
                /\ distance_dict' = DistanceLoop(distance_dict, 1, coords, m)
                /\ tmCalls' = 1 + Cardinality({i \in 1..Len(codes) :
                                                 ref_coords[i] # None})

----------------------------------------------------------------------------
(* The registry and geometry state machine *)

Init ==
    /\ n_sta = 0
    /\ station_ts = <<>>
    /\ ref_coords = <<>>
    /\ codes = <<>>
    /\ code2index = EmptyDict
    /\ names = <<>>
    /\ s_rate = 1
    /\ tm = <<0, 0>>
    /\ lat_range = <<100000000, -100000000>>
    /\ lon_range = <<370000000, -200000000>>
    /\ hypocenter = <<NaN, NaN, NaN>>
    /\ t_origin = NaN
    /\ distance_dict = EmptyDict
    /\ max_distance = NaN
    /\ tmCalls = 0
    /\ call = [op |-> "__init__"]
    /\ result = ReturnNone

AddStation ==
    \E code \in Codes, rc \in RefCoordsArgs \cup {None}, name \in Names :
        add_station(code, rc, name)

SetHypocenterCoords ==
    \E coords \in HypoArgs \cup {None}, maxd \in MaxDistanceArgs :
        set_hypocenter_coords(coords, maxd)

Next == AddStation \/ SetHypocenterCoords

Spec == Init /\ [][Next]_vars

----------------------------------------------------------------------------
(* Claims about the registry and the distance map, checked under Spec *)

Registered == DOMAIN code2index

\* the hypocentral distance of the station a code resolves to, from the stored
\* hypocentre
StationDistance(c) ==
    HypoDistance(<<hypocenter[1], hypocenter[2]>>, hypocenter[3], ref_coords_of(c))

MinOf(S) == CHOOSE v \in S : \A w \in S : v <= w

MaxOf(S) == CHOOSE v \in S : \A w \in S : w <= v

C1_RegistryState ==
    /\ \A i, j \in 1..Len(codes) : i # j => codes[i] # codes[j]
    /\ n_sta = Len(codes)
    /\ Registered = Range(codes)
    /\ {station_index(c) : c \in Registered} = 0..(n_sta - 1)
    /\ \A i \in 1..Len(codes) : station_index(codes[i]) = i - 1
    /\ \A c \in Registered : station_code(station_index(c)) = c

\* C1: after any add_station calls, repeated codes included, the registered
\* codes are unique, the indices are 0..n_sta-1 in registration order, an index
\* once assigned to a code is never reassigned, and
\* station_code(station_index(c)) = c for every registered code c.
C1_UniqueDenseStable ==
    [][/\ C1_RegistryState'
       /\ \A c \in Registered :
            c \in Registered' /\ station_index(c)' = station_index(c)]_vars

\* C2: add_station without reference coordinates does not raise and leaves the
\* registry unchanged, and a code enters the registry or the distance map only
\* through an add_station call that carries reference coordinates.
C2_NoCoordsNotRegistered ==
    [][/\ (call'.op = "add_station" /\ call'.ref_coords = None)
            => (UNCHANGED <<registry, geometry>> /\ result' = ReturnNone)
       /\ DOMAIN distance_dict' \subseteq Range(codes')
       /\ \A c \in (Range(codes') \cup Registered') \ (Range(codes) \cup Registered) :
            /\ call'.op = "add_station"
            /\ call'.code = c
            /\ call'.ref_coords # None]_vars

C2_Witness ==
    /\ call.op = "add_station"
    /\ call.ref_coords = None
    /\ call.code \notin Range(codes)
    /\ n_sta > 0
    /\ HypocenterIsSet
    /\ DOMAIN distance_dict # {}

\* the last call was a hypocentre update that recomputed the distances
Recomputed == call.op = "set_hypocenter_coords" /\ tmCalls > 0

\* C3: every key of the distance map is a registered code and its value is
\* strictly below the stored maximum distance (800 when none was passed); after
\* an update that recomputed, a station at or above the maximum is absent and
\* one below it is present with its distance.
C3_DistanceMapBelowMax ==
    /\ \A c \in DOMAIN distance_dict :
            c \in Range(codes) /\ distance_dict[c] < max_distance
    /\ Recomputed =>
         /\ call.max_distance = NoneNum => max_distance = 800
         /\ call.max_distance # NoneNum => max_distance = call.max_distance
         /\ \A c \in Registered :
               IF StationDistance(c) >= max_distance
               THEN c \notin DOMAIN distance_dict
               ELSE c \in DOMAIN distance_dict
                    /\ distance_dict[c] = StationDistance(c)

C3_Witness ==
    /\ Recomputed
    /\ max_distance = 800
    /\ \E c \in DOMAIN distance_dict : distance_dict[c] = 799
    /\ \E c \in Registered \ DOMAIN distance_dict : StationDistance(c) = 800

\* C4: once a hypocentre is set, a registered station is in the distance map
\* if and only if its distance to the stored hypocentre is below the stored
\* maximum, with that distance as value; stations registered after the last
\* update included.
C4_DistanceMapCurrent ==
    HypocenterIsSet =>
        \A c \in Registered :
            /\ c \in DOMAIN distance_dict <=> StationDistance(c) < max_distance
            /\ c \in DOMAIN distance_dict => distance_dict[c] = StationDistance(c)

\* |dlon| < 1e-5, |dlat| < 1e-5 and 0.01*|ddepth| < 1e-5, in the model's units
C5_Tolerance(c, h) ==
    /\ Abs(c[1] - h[1]) < 10
    /\ Abs(c[2] - h[2]) < 10
    /\ Abs(c[3] - h[3]) < 1000

\* C5: with a hypocentre set, a set_hypocenter_coords call within tolerance of
\* it, whatever its max_distance, changes neither the hypocentre, the maximum
\* distance nor the distance map and calls the projector zero times; so does a
\* call without coordinates; the first call on an unset hypocentre recomputes.
C5_ToleranceNoOp ==
    [][call'.op = "set_hypocenter_coords" =>
        /\ (call'.coords = None
             \/ (HypocenterIsSet /\ C5_Tolerance(call'.coords, hypocenter)))
            => (UNCHANGED <<hypocenter, max_distance, distance_dict, tm>>
                /\ tmCalls' = 0)
        /\ (call'.coords # None /\ ~HypocenterIsSet)
            => /\ hypocenter' = call'.coords
               /\ tm' = <<call'.coords[1], call'.coords[2]>>
               /\ tmCalls' >= 1
               /\ max_distance' # NaN]_vars

C5_Witness ==
    /\ call.op = "set_hypocenter_coords"
    /\ call.coords # None
    /\ HypocenterIsSet
    /\ call.coords # hypocenter
    /\ C5_Tolerance(call.coords, hypocenter)
    /\ call.max_distance = 100
    /\ max_distance = 800
    /\ DOMAIN distance_dict # {}
    /\ tmCalls = 0

\* C6: after two or more add_station calls with reference coordinates,
\* lat_range() is (minimum, maximum) latitude and lon_range() is (minimum,
\* maximum) longitude of the stations registered so far.
C6_BoundingRange ==
    Len(ref_coords) >= 2 =>
        /\ lat_range_get = <<MinOf({ref_coords[i][2] : i \in 1..Len(ref_coords)}),
                             MaxOf({ref_coords[i][2] : i \in 1..Len(ref_coords)})>>
        /\ lon_range_get = <<MinOf({ref_coords[i][1] : i \in 1..Len(ref_coords)}),
                             MaxOf({ref_coords[i][1] : i \in 1..Len(ref_coords)})>>

----------------------------------------------------------------------------
(* Mw from PGD *)

\* float('inf')
PosInf == 888888888

\* math.isfinite
isfinite(x) == x # NaN /\ x # PosInf /\ x # NegInf

\* 1000*log10(d) for d = 1..9
Log10Digit == <<0, 301, 477, 602, 699, 778, 845, 903, 954>>

\* 1000*log10(n) for n >= 1, exact to 1e-3 when n has one significant digit
RECURSIVE Log10Milli(_)
Log10Milli(n) ==
    IF n < 10 THEN Log10Digit[n] ELSE 1000 + Log10Milli(n \div 10)

\* np.log10, in 1e-3: nan for a negative argument, -inf for zero
log10(x) ==
    IF x = NaN \/ x = PosInf THEN x
    ELSE IF x < 0 THEN NaN
    ELSE IF x = 0 THEN NegInf
    ELSE Log10Milli(x)

\* 100*pgd: PGD in metres (unit 1e-4 m) to centimetres (unit 1e-4 cm)
Times100(pgd) == IF isfinite(pgd) THEN 100 * pgd ELSE pgd

\* mw_melgar(pgd, r_hypo) = (log10(pgd) + 4.434)/(1.047 - 0.138*log10(r_hypo)),
\* pgd in 1e-4 cm, r_hypo in km (below 10^7.58 km, where the denominator is
\* positive), the result in 1e-3
mw_melgar(pgd, r_hypo) ==
    LET lp == log10(pgd)
        lr == log10(r_hypo)
    IN  IF lp = NaN THEN NaN
        ELSE IF lr = NegInf THEN (IF isfinite(lp) THEN 0 ELSE NaN)
        ELSE IF ~isfinite(lp) THEN lp
        ELSE ((lp - 4000 + 4434) * 100000) \div ((1047000 - 138 * lr) \div 10)

\* mw_from_pgd(pgd_dict): dict code -> (Mw, r)
mw_from_pgd(pgd_dict) ==
    [code \in {c \in DOMAIN distance_dict :
                  c \in DOMAIN pgd_dict /\ isfinite(pgd_dict[c])} |->
        <<mw_melgar(Times100(pgd_dict[code]), distance_dict[code]),
          distance_dict[code]>>]

mw_from_pgd_call(pgd_dict) ==
    /\ call' = [op |-> "mw_from_pgd", pgd_dict |-> pgd_dict]
    /\ result' = [kind |-> "dict", value |-> mw_from_pgd(pgd_dict)]
    /\ tmCalls' = 0
    /\ UNCHANGED <<registry, geometry, s_rate, t_origin>>

----------------------------------------------------------------------------
(* The network Mw time series *)

\* float arithmetic on the sums of line 395, nan and the infinities included
FAdd(a, b) ==
    IF a = NaN \/ b = NaN THEN NaN
    ELSE IF a = PosInf THEN (IF b = NegInf THEN NaN ELSE PosInf)
    ELSE IF a = NegInf THEN (IF b = PosInf THEN NaN ELSE NegInf)
    ELSE IF ~isfinite(b) THEN b
    ELSE a + b

\* line 398: mw /= count
FDiv(a, n) == IF isfinite(a) THEN a \div n ELSE a

\* line 399: mw < 1.e-5, for mw in 1e-3
BelowFloor(a) == a = NegInf \/ (isfinite(a) /\ 100 * a < 1)

\* station_timeseries(code).pgd_timeseries(...): the pair (pgd, t) of the buffer
BufferSeries(code) == station_ts[code2index[code] + 1]

\* pgd_timeseries(sta_list): dict code -> (pgd, t)
pgd_timeseries(sta_list) ==
    LET lst == IF sta_list = NoneList THEN station_codes ELSE sta_list
    IN  [code \in Range(lst) |-> BufferSeries(code)]

\* self._distance_dict.items(): the keys, in the order of their registry index
DictKeys ==
    SelectSeq(codes, LAMBDA c : c \in DOMAIN distance_dict)

\* line 364: t_mask = t_origin + r/vel_mask, in ms
MaskTime(code, vel_mask) ==
    t_origin + (distance_dict[code] * 1000) \div vel_mask

\* lines 361-365: the stations kept, or the KeyError of pgd_dict[code]
RECURSIVE SurvivorLoop(_, _, _, _, _)
SurvivorLoop(keys, i, pgd_dict, maxd, kept) ==
    IF i > Len(keys) THEN [raised |-> FALSE, codes |-> kept]
    ELSE LET code == keys[i]
         IN  IF distance_dict[code] > maxd
             THEN SurvivorLoop(keys, i + 1, pgd_dict, maxd, kept)
             ELSE IF code \notin DOMAIN pgd_dict
             THEN [raised |-> TRUE, codes |-> kept]
             ELSE IF pgd_dict[code].pgd = None
             THEN SurvivorLoop(keys, i + 1, pgd_dict, maxd, kept)
             ELSE SurvivorLoop(keys, i + 1, pgd_dict, maxd, Append(kept, code))

\* lines 370-379
RECURSIVE TMin(_, _, _, _)
TMin(kept, i, pgd_dict, acc) ==
    IF i > Len(kept) THEN acc
    ELSE LET aux == pgd_dict[kept[i]].t[1]
         IN  TMin(kept, i + 1, pgd_dict,
                  IF acc = PosInf \/ aux < acc THEN aux ELSE acc)

RECURSIVE TMax(_, _, _, _)
TMax(kept, i, pgd_dict, acc) ==
    IF i > Len(kept) THEN acc
    ELSE LET t == pgd_dict[kept[i]].t
             aux == t[Len(t)]
         IN  TMax(kept, i + 1, pgd_dict,
                  IF acc = NegInf \/ aux > acc THEN aux ELSE acc)

\* np.arange(start, stop, step)
arange(start, stop, step) ==
    LET n == IF stop <= start THEN 0 ELSE (stop - start + step - 1) \div step
    IN  [i \in 1..n |-> start + (i - 1) * step]

\* np.argmin(np.abs(a - x)): the first index of the least |a[i] - x|, one-based
RECURSIVE ArgMinScan(_, _, _, _)
ArgMinScan(a, x, i, best) ==
    IF i > Len(a) THEN best
    ELSE ArgMinScan(a, x, i + 1,
                    IF Abs(a[i] - x) < Abs(a[best] - x) THEN i ELSE best)

argmin_abs(a, x) == ArgMinScan(a, x, 2, 1)

\* line 391: k = np.argmin(np.abs(t - t_m)), one-based
MaskIndex(t, t_m) == argmin_abs(t, t_m)

\* line 393 without the origin time taken off t[k]
GridIndex_absolute(t_mw, t_k) == argmin_abs(t_mw, t_k)

\* line 393: i1 = np.argmin(np.abs(t_mw - (t[k] - self._t_origin))), one-based
GridIndex(t_mw, t_k) == argmin_abs(t_mw, t_k - t_origin)

\* lines 387-396: the accumulation, from station i of the kept ones;
\* acc = [raised, mw, count, k], k the index of line 391 per accumulated station
RECURSIVE AccumulateLoop(_, _, _, _, _, _)
AccumulateLoop(kept, i, pgd_dict, vel_mask, t_mw, acc) ==
    IF i > Len(kept) \/ acc.raised THEN acc
    ELSE LET code == kept[i]
             pgd == pgd_dict[code].pgd
             t == pgd_dict[code].t
             t_m == MaskTime(code, vel_mask)
         IN  IF t_m > t[Len(t)]
             THEN AccumulateLoop(kept, i + 1, pgd_dict, vel_mask, t_mw, acc)
             ELSE LET k == MaskIndex(t, t_m)
                      aux == [j \in 1..(Len(pgd) - k + 1) |->
                                 mw_melgar(Times100(pgd[k + j - 1]),
                                           distance_dict[code])]
                      i1 == GridIndex(t_mw, t[k])
                      i2 == i1 + Len(aux)
                  IN  IF i2 - 1 > Len(t_mw)
                      THEN [acc EXCEPT !.raised = TRUE]
                      ELSE AccumulateLoop(kept, i + 1, pgd_dict, vel_mask, t_mw,
                             [raised |-> FALSE,
                              mw |-> [g \in 1..Len(t_mw) |->
                                        IF i1 <= g /\ g < i2
                                        THEN FAdd(acc.mw[g], aux[g - i1 + 1])
                                        ELSE acc.mw[g]],
                              count |-> [g \in 1..Len(t_mw) |->
                                        IF i1 <= g /\ g < i2
                                        THEN acc.count[g] + 1
                                        ELSE acc.count[g]],
                              k |-> DictSet(acc.k, code, k)])

\* lines 397-399
Average(mw, count) ==
    [g \in 1..Len(mw) |->
        LET v == FDiv(mw[g], IF count[g] = 0 THEN 1 ELSE count[g])
        IN  IF BelowFloor(v) THEN NaN ELSE v]

mw_timeseries_from_pgd(vel_mask, sta_list, maxd_arg) ==
    LET pgd_dict == pgd_timeseries(sta_list)
        maxd == IF maxd_arg = NoneNum THEN default_max_distance ELSE maxd_arg
        surv == SurvivorLoop(DictKeys, 1, pgd_dict, maxd, <<>>)
        kept == surv.codes
    IN  IF surv.raised THEN [kind |-> "raise", exc |-> "KeyError"]
        ELSE IF Len(kept) = 0 THEN [kind |-> "NonePair"]
        ELSE LET t_min == TMin(kept, 1, pgd_dict, PosInf)
                 t_max == TMax(kept, 1, pgd_dict, NegInf)
                 t_step == 1000 \div s_rate
                 t_mw == arange(t_min - t_origin,
                                t_max - t_origin + t_step \div 2, t_step)
                 acc == AccumulateLoop(kept, 1, pgd_dict, vel_mask, t_mw,
                          [raised |-> FALSE,
                           mw |-> [g \in 1..Len(t_mw) |-> 0],
                           count |-> [g \in 1..Len(t_mw) |-> 0],
                           k |-> EmptyDict])
             IN  IF acc.raised THEN [kind |-> "raise", exc |-> "ValueError"]
                 ELSE [kind |-> "series", mw |-> Average(acc.mw, acc.count),
                       t_mw |-> t_mw, k |-> acc.k]

mw_timeseries_from_pgd_call(vel_mask, sta_list, maxd_arg) ==
    /\ call' = [op |-> "mw_timeseries_from_pgd", vel_mask |-> vel_mask,
                sta_list |-> sta_list, max_distance |-> maxd_arg]
    /\ result' = mw_timeseries_from_pgd(vel_mask, sta_list, maxd_arg)
    /\ tmCalls' = 0
    /\ UNCHANGED <<registry, geometry, s_rate, t_origin>>

----------------------------------------------------------------------------
(* The estimators on a network during an event *)

\* the longest PGD series a buffer returns
MaxLen == 2

\* PGD samples (1e-4 m) a buffer returns
PgdSamples == {0, 500}

\* first timestamps of a buffer's PGD series, ms after the origin time
StartTimes == {16000, 33000}

OriginTimes == {0, 5000}

\* reference coordinates of the two stations: 50, 100 and 900 km from <<0, 0>>
EventCoordsA == {<<500000, 0>>, <<1000000, 0>>}

EventCoordsB == {<<500000, 0>>, <<9000000, 0>>}

\* what GnssTimeSeries.pgd_timeseries(t_origin, window) returns: (None, None),
\* or PGD values with their timestamps, one per sampling step, increasing
PGDSeries(t0, step) ==
    {NewBuffer} \cup
    {[pgd |-> v, t |-> [i \in 1..Len(v) |-> t0 + start + (i - 1) * step]] :
        v \in UNION {[1..n -> PgdSamples] : n \in 1..MaxLen},
        start \in StartTimes}

\* PGD values (1e-4 m) offered to mw_from_pgd
PgdArgs == {NaN, PosInf, -10000, 0, 500}

PgdDicts == UNION {[S -> PgdArgs] : S \in SUBSET Codes}

VelMaskArgs == {3}

StaListArgs == {NoneList, <<>>, <<"AAAA">>, <<"BBBB">>, <<"AAAA", "BBBB">>}

MaxDistanceTsArgs == {NoneNum, 60}

\* two stations registered, the origin time and the hypocentre <<0, 0, 0>> set
\* with the default maximum distance, each buffer answering with one of Series
InitEventWith(Series) ==
    /\ n_sta = 2
    /\ codes = <<"AAAA", "BBBB">>
    /\ code2index = [c \in {"AAAA", "BBBB"} |-> IF c = "AAAA" THEN 0 ELSE 1]
    /\ names = <<"Alpha", "Alpha">>
    /\ \E a \in EventCoordsA, b \in EventCoordsB :
          /\ ref_coords = <<a, b>>
          /\ lat_range = UpdateRange(UpdateRange(<<100000000, -100000000>>,
                                                 a[2]), b[2])
          /\ lon_range = UpdateRange(UpdateRange(<<370000000, -200000000>>,
                                                 a[1]), b[1])
    /\ s_rate = 1
    /\ t_origin \in OriginTimes
    /\ station_ts \in [1..2 -> Series]
    /\ hypocenter = <<0, 0, 0>>
    /\ tm = <<0, 0>>
    /\ max_distance = default_max_distance
    /\ distance_dict = DistanceLoop(EmptyDict, 1, hypocenter, max_distance)
    /\ tmCalls = 3
    /\ call = [op |-> "set_hypocenter_coords", coords |-> hypocenter,
               max_distance |-> NoneNum]
    /\ result = ReturnNone

\* mw_from_pgd reads no buffer
InitMw == InitEventWith({NewBuffer})

MwFromPgd == \E pgd_dict \in PgdDicts : mw_from_pgd_call(pgd_dict)

SpecMw == InitMw /\ [][MwFromPgd]_vars

InitTs == InitEventWith(PGDSeries(t_origin, 1000 \div s_rate))

MwTimeseriesFromPgd ==
    \E vel_mask \in VelMaskArgs, sta_list \in StaListArgs,
       maxd \in MaxDistanceTsArgs :
        mw_timeseries_from_pgd_call(vel_mask, sta_list, maxd)

SpecTs == InitTs /\ [][MwTimeseriesFromPgd]_vars

----------------------------------------------------------------------------
(* Claims about mw_from_pgd, checked under SpecMw *)

\* C7: the keys of mw_from_pgd's result are exactly the stations of the
\* distance map whose entry in pgd_dict is a finite, strictly positive PGD; no
\* result value is nan or infinite; a station missing from pgd_dict is skipped
\* without an exception.
C7_OnlyFinitePositivePgd ==
    call.op = "mw_from_pgd" =>
        /\ result.kind = "dict"
        /\ DOMAIN result.value =
              {c \in DOMAIN distance_dict :
                  /\ c \in DOMAIN call.pgd_dict
                  /\ isfinite(call.pgd_dict[c])
                  /\ call.pgd_dict[c] > 0}
        /\ \A c \in DOMAIN result.value : isfinite(result.value[c][1])

----------------------------------------------------------------------------
(* Claims about mw_timeseries_from_pgd, checked under SpecTs *)

TsCall == call.op = "mw_timeseries_from_pgd"

\* the max_distance in force during the last call
TsMaxDistance ==
    IF call.max_distance = NoneNum THEN 800 ELSE call.max_distance

\* sample j of station c is at or after origin_time + r/vel_mask
AfterMask(c, j) ==
    (BufferSeries(c).t[j] - t_origin) * call.vel_mask >= 1000 * distance_dict[c]

\* C8: only samples at or after t_mask = origin_time + r/vel_mask are
\* accumulated, and a station whose t_mask is later than its last sample
\* contributes nothing.
C8_NoSampleBeforeMask ==
    (TsCall /\ result.kind = "series") =>
        \A c \in DOMAIN result.k :
            /\ AfterMask(c, result.k[c])
            /\ AfterMask(c, Len(BufferSeries(c).t))

\* the stations of the distance map within max_distance with a PGD series
TsCandidates ==
    {c \in DOMAIN distance_dict :
        distance_dict[c] <= TsMaxDistance /\ BufferSeries(c).pgd # None}

\* C9: for every sta_list (None, empty, any subset of the registered codes)
\* mw_timeseries_from_pgd raises no exception, and returns (None, None)
\* whenever no station of the distance map is within max_distance with a
\* non-empty PGD series.
C9_NoExceptionNullPair ==
    TsCall =>
        /\ result.kind # "raise"
        /\ TsCandidates = {} => result.kind = "NonePair"

\* the stations that survive lines 361-365 of a call that returned a series
Surviving == {c \in TsCandidates : c \in DOMAIN pgd_timeseries(call.sta_list)}

\* |t[j] - t_mask| of station c, times vel_mask
MaskGap(c, j) ==
    Abs((BufferSeries(c).t[j] - t_origin) * call.vel_mask
        - 1000 * distance_dict[c])

\* sample j of station c is retained: the mask time is not after the last
\* sample, and no later sample is nearer to the mask time
Retained(c, j) ==
    /\ AfterMask(c, Len(BufferSeries(c).t))
    /\ \A i \in (j + 1)..Len(BufferSeries(c).t) : MaskGap(c, i) >= MaskGap(c, j)

\* the retained samples <<c, j>> whose timestamp is grid time g
Contributions(g) ==
    {cj \in UNION {{<<c, j>> : j \in 1..Len(BufferSeries(c).t)} : c \in Surviving} :
        /\ Retained(cj[1], cj[2])
        /\ BufferSeries(cj[1]).t[cj[2]] - t_origin = g}

RECURSIVE MwSum(_)
MwSum(S) ==
    IF S = {} THEN 0
    ELSE LET cj == CHOOSE x \in S : TRUE
         IN  FAdd(mw_melgar(Times100(BufferSeries(cj[1]).pgd[cj[2]]),
                            distance_dict[cj[1]]),
                  MwSum(S \ {cj}))

\* the Mw of grid time g
ExpectedMw(g) ==
    IF Contributions(g) = {} THEN NaN
    ELSE LET mean == FDiv(MwSum(Contributions(g)), Cardinality(Contributions(g)))
         IN  IF BelowFloor(mean) THEN NaN ELSE mean

====
